---- MODULE Spec2Model ----
(***************************************************************************)
(* Model of scrapers/texas_cad_scraper.py: the TexasCADScraper object      *)
(* (reference table, synthetic record generator, lead scorer, aggregator,  *)
(* exporter) and the run of main().                                        *)
(*                                                                         *)
(* Representation choices:                                                 *)
(*  - a Python str is a sequence of one-character strings, so that         *)
(*    "'&' in owner_name" is a real membership test on the characters;     *)
(*  - a Python dict is a function whose DOMAIN is its key set; the empty   *)
(*    dict {} is the function with empty domain;                           *)
(*  - random.uniform factors are drawn on a grid: the value factor of      *)
(*    line 162 in twentieths (16..26 for 0.80..1.30), the market factor of *)
(*    line 180 in thousandths (950..1050 for 0.95..1.05); products are     *)
(*    exact integer arithmetic, int() is truncation (\div on naturals);    *)
(*  - in a run of main the `random` module is a seeded pseudo-random       *)
(*    generator: the seed is chosen in Init and every draw steps it;       *)
(*  - a property record keeps the fields the scorer, the aggregator and    *)
(*    the exporter read (county, owner_name, year_built, square_feet,      *)
(*    appraised_value, market_value, homestead_exemption, lead_score);     *)
(*    account number, address, ZIP, lot size, sale data, URL and timestamp *)
(*    are write-only strings of the record and are left out.               *)
(***************************************************************************)
EXTENDS Integers, Sequences, FiniteSets, TLC

VARIABLES
    pc,                 \* position of the caller (main's control point)
    county_ix,          \* position of the county loop of line 128
    i,                  \* loop variable of line 135
    rng,                \* state of the pseudo-random source
    now_year,           \* datetime.now().year
    property_data,      \* the record built by lines 168-188, before its insert
    sample_properties,  \* local list of create_texas_cad_sample_data
    all_properties,     \* self.all_properties
    sink_calls,         \* number of insert_lead calls made so far
    sink_last,          \* supabase_data of the latest insert_lead call
    sink_failed,        \* position of the first record whose insert failed (0: none)
    csv_written,        \* the tabular file has been written
    csv_rows,           \* rows of the tabular file
    stats,              \* last value returned by get_cad_stats
    stats_done,         \* get_cad_stats has returned
    ret,                \* return value of main (NoReturn before it returns)
    caught,             \* step whose exception main's except clause caught ("none": none)
    call,               \* latest call of calculate_cad_lead_score (scorer harness)
    prev                \* the call before it

vars == <<pc, county_ix, i, rng, now_year, property_data, sample_properties,
          all_properties, sink_calls, sink_last, sink_failed, csv_written,
          csv_rows, stats, stats_done, ret, call, prev, caught>>

(***************************************************************************)
(* Bounds of the model.                                                    *)
(***************************************************************************)
MaxSeed == 2            \* seeds 0..MaxSeed of the pseudo-random source
MaxYear == 2025         \* the clock reads ReferenceYear..MaxYear
MaxProps == 2           \* longest record set handed to the aggregator harness

(***************************************************************************)
(* Constants of the program.                                               *)
(***************************************************************************)
ReferenceYear == 2024
NoReturn == -1

Min(a, b) == IF a < b THEN a ELSE b
Max(a, b) == IF a > b THEN a ELSE b

(***************************************************************************)
(* Reference data: __init__, lines 37-88, in dict iteration order.         *)
(***************************************************************************)
CountyOrder ==
    << "Harris County", "Dallas County", "Tarrant County", "Bexar County",
       "Travis County", "Collin County", "Hidalgo County", "Fort Bend County",
       "Denton County", "Montgomery County" >>

texas_cads ==
    [ c \in {CountyOrder[k] : k \in 1..Len(CountyOrder)} |->
        CASE c = "Harris County"     -> [population |-> 4731145]
          [] c = "Dallas County"     -> [population |-> 2613539]
          [] c = "Tarrant County"    -> [population |-> 2110640]
          [] c = "Bexar County"      -> [population |-> 2009324]
          [] c = "Travis County"     -> [population |-> 1290188]
          [] c = "Collin County"     -> [population |-> 1064465]
          [] c = "Hidalgo County"    -> [population |-> 870781]
          [] c = "Fort Bend County"  -> [population |-> 822779]
          [] c = "Denton County"     -> [population |-> 906422]
          [] c = "Montgomery County" -> [population |-> 620443] ]

Counties == DOMAIN texas_cads

\* get_base_property_value, lines 235-250 (.get default 250000)
get_base_property_value(county) ==
    CASE county = "Harris County"     -> 280000
      [] county = "Dallas County"     -> 320000
      [] county = "Tarrant County"    -> 280000
      [] county = "Bexar County"      -> 220000
      [] county = "Travis County"     -> 450000
      [] county = "Collin County"     -> 380000
      [] county = "Hidalgo County"    -> 150000
      [] county = "Fort Bend County"  -> 350000
      [] county = "Denton County"     -> 350000
      [] county = "Montgomery County" -> 300000
      [] OTHER                        -> 250000

\* Name templates, lines 104-114: a sample of each list.
first_names == << <<"J","o","h","n">>, <<"M","a","r","y">>, <<"L","i","s","a">> >>
last_names == << <<"S","m","i","t","h">>, <<"L","e","e">> >>

\* lines 139-144: f"{first_name} {last_name}", or with joint ownership
\* f"{first_name} & {spouse_first} {last_name}"
OwnerName(first_name, last_name, joint, spouse_first) ==
    IF joint
    THEN first_name \o <<" ", "&", " ">> \o spouse_first \o <<" ">> \o last_name
    ELSE first_name \o <<" ">> \o last_name

(***************************************************************************)
(* Lead scorer: calculate_cad_lead_score, lines 252-279.                   *)
(***************************************************************************)
\* line 276: '&' in owner_name
HasAmpersand(owner_name) == \E k \in DOMAIN owner_name : owner_name[k] = "&"

\* Variants of the scorer with one slip each: the top value tier taken from
\* top_value on, the bonuses of the two upper age tiers, and the cap.
LeadScoreVariant(value, year_built, owner_name, top_value, old_bonus, mid_bonus, cap) ==
    LET s1 == IF value >= top_value THEN 8
              ELSE IF value > 300000 THEN 7
              ELSE IF value > 200000 THEN 6
              ELSE 5
        age == now_year - year_built
        s2 == IF age > 15 THEN s1 + old_bonus
              ELSE IF age > 10 THEN s1 + mid_bonus
              ELSE IF age > 5 THEN s1 + 1
              ELSE s1
        s3 == IF HasAmpersand(owner_name) THEN s2 + 1 ELSE s2
    IN  Min(s3, cap)

\* "value >= 500000" for "value > 500000"
calculate_cad_lead_score_ge(value, year_built, owner_name) ==
    LeadScoreVariant(value, year_built, owner_name, 500000, 3, 2, 10)

\* the bonuses of the two upper age tiers exchanged
calculate_cad_lead_score_swapped(value, year_built, owner_name) ==
    LeadScoreVariant(value, year_built, owner_name, 500001, 2, 3, 10)

\* "return score" for "return min(score, 10)"
calculate_cad_lead_score_unclamped(value, year_built, owner_name) ==
    LeadScoreVariant(value, year_built, owner_name, 500001, 3, 2, 100)

calculate_cad_lead_score(value, year_built, owner_name) ==
    LET s0 == 5
        s1 == IF value > 500000 THEN s0 + 3
              ELSE IF value > 300000 THEN s0 + 2
              ELSE IF value > 200000 THEN s0 + 1
              ELSE s0
        current_year == now_year
        age == current_year - year_built
        s2 == IF age > 15 THEN s1 + 3
              ELSE IF age > 10 THEN s1 + 2
              ELSE IF age > 5 THEN s1 + 1
              ELSE s1
        s3 == IF HasAmpersand(owner_name) THEN s2 + 1 ELSE s2
    IN  Min(s3, 10)

(***************************************************************************)
(* Synthetic record generator: create_texas_cad_sample_data, lines 99-216. *)
(***************************************************************************)
\* the upper limit of line 133 left out
property_count_uncapped(population) == Max(population \div 100000, 5)

\* line 133: min(max(int(population / 100000), 5), 15)
property_count(population) == Min(Max(population \div 100000, 5), 15)

\* line 160: max(0.7, 1 - (2024 - year_built) * 0.01), in hundredths
age_factor(year_built) == Max(70, 100 - (ReferenceYear - year_built))

\* lines 159-162: int(base_value * age_factor * size_factor * uniform(0.8, 1.3))
\* with size_factor = square_feet / 2000 and the uniform factor u_value / 20.
\* base_value is a multiple of 10000, so the product is exact:
\* base * (af / 100) * (sf / 2000) * (u / 20) = (base / 10000) * af * sf * u / 400.
estimated_value(county, year_built, square_feet, u_value) ==
    ((get_base_property_value(county) \div 10000) * age_factor(year_built)
        * square_feet * u_value) \div 400

\* the factor of last_sale_price (line 183, 0.85..1.15) used for the market value
market_value_sale_factor(appraised, u_market) ==
    (appraised * (1000 + 3 * (u_market - 1000))) \div 1000

\* line 180: int(estimated_value * uniform(0.95, 1.05)), the factor u_market / 1000
market_value(appraised, u_market) == (appraised * u_market) \div 1000

\* lines 168-188: the property record
MakeRecord(county, owner_name, year_built, square_feet, u_value, u_market, homestead) ==
    LET value == estimated_value(county, year_built, square_feet, u_value)
    IN  [ county              |-> county,
          owner_name          |-> owner_name,
          year_built          |-> year_built,
          square_feet         |-> square_feet,
          appraised_value     |-> value,
          market_value        |-> market_value(value, u_market),
          homestead_exemption |-> homestead,
          lead_score          |-> calculate_cad_lead_score(value, year_built, owner_name) ]

NoRecord == [county |-> "none"]

\* lines 191-209: the fields of the record handed to insert_lead
supabase_data(p) ==
    [ owner_name          |-> p.owner_name,
      county              |-> p.county,
      year_built          |-> p.year_built,
      square_feet         |-> p.square_feet,
      appraised_value     |-> p.appraised_value,
      market_value        |-> p.market_value,
      homestead_exemption |-> p.homestead_exemption,
      lead_score          |-> p.lead_score ]

(***************************************************************************)
(* The `random` module (line 12) as a seeded generator: a 16-bit linear    *)
(* congruential step, and the library functions as maps of its state.      *)
(***************************************************************************)
Rand(r) == (25173 * r + 13849) % 65536

RECURSIVE RandN(_, _)
RandN(r, n) == IF n = 0 THEN r ELSE RandN(Rand(r), n - 1)

\* random.choice(seq)
Choice(seq, r) == seq[1 + (r * Len(seq)) \div 65536]
\* random.randint(a, b), both ends included
RandInt(a, b, r) == a + (r * (b - a + 1)) \div 65536
\* random.random() > 0.7
JointDraw(r) == 10 * r > 7 * 65536

\* lines 136-188 with the draws of one loop iteration taken from state r
DrawRecord(county, r) ==
    LET first_name   == Choice(first_names, RandN(r, 1))
        last_name    == Choice(last_names, RandN(r, 2))
        joint        == JointDraw(RandN(r, 3))
        spouse_first == Choice(first_names, RandN(r, 4))
        year_built   == RandInt(1975, 2023, RandN(r, 5))
        square_feet  == RandInt(1200, 4500, RandN(r, 6))
        u_value      == RandInt(16, 26, RandN(r, 7))
        u_market     == RandInt(950, 1050, RandN(r, 8))
        homestead    == Choice(<<TRUE, FALSE>>, RandN(r, 9))
    IN  MakeRecord(county, OwnerName(first_name, last_name, joint, spouse_first),
                   year_built, square_feet, u_value, u_market, homestead)

(***************************************************************************)
(* Aggregator: get_cad_stats, lines 319-373.                               *)
(***************************************************************************)
EmptyDict == [k \in {} |-> 0]

\* dict.get(key, default)
Get(d, key, default) == IF key \in DOMAIN d THEN d[key] ELSE default

\* the chain of lines 342-349 ending in "elif value > 600000" with no else
ValueBucketGap(value) ==
    IF value < 200000 THEN "under_200k"
    ELSE IF value < 400000 THEN "200k_400k"
    ELSE IF value < 600000 THEN "400k_600k"
    ELSE IF value > 600000 THEN "over_600k"
    ELSE "none"

\* lines 342-349: the bucket of one value
ValueBucket(value) ==
    IF value < 200000 THEN "under_200k"
    ELSE IF value < 400000 THEN "200k_400k"
    ELSE IF value < 600000 THEN "400k_600k"
    ELSE "over_600k"

\* lines 353-358: the tier of one score
ScoreTier(lead_score) ==
    IF lead_score >= 8 THEN "high"
    ELSE IF lead_score >= 6 THEN "medium"
    ELSE "low"

RECURSIVE SumValues(_)
SumValues(props) ==
    IF props = <<>> THEN 0
    ELSE Get(Head(props), "appraised_value", 0) + SumValues(Tail(props))

\* lines 324-373: the loop over the records and the returned dict
StatsRecord(props) ==
      LET CountyOf(p) == Get(p, "county", "Unknown")
          BucketOf(p) == ValueBucket(Get(p, "appraised_value", 0))
          TierOf(p)   == ScoreTier(Get(p, "lead_score", 5))
          HomeOf(p)   == Get(p, "homestead_exemption", FALSE)
          total_value == SumValues(props)
          Indices     == 1..Len(props)
      IN  [ total_properties      |-> Len(props),
            total_appraised_value |-> total_value,
            average_value         |-> IF props # <<>> THEN total_value \div Len(props) ELSE 0,
            counties              |-> [c \in {CountyOf(props[k]) : k \in 1..Len(props)} |->
                                          Cardinality({k \in Indices : CountyOf(props[k]) = c})],
            value_ranges          |-> [b \in {"under_200k", "200k_400k", "400k_600k", "over_600k"} |->
                                          Cardinality({k \in Indices : BucketOf(props[k]) = b})],
            lead_scores           |-> [t \in {"high", "medium", "low"} |->
                                          Cardinality({k \in Indices : TierOf(props[k]) = t})],
            homestead_properties  |-> Cardinality({k \in Indices : HomeOf(props[k]) = TRUE}) ]

\* the early return of lines 321-322 left out
get_cad_stats_no_guard(props) == StatsRecord(props)

\* lines 321-322: an empty record set returns {} before anything is computed
get_cad_stats(props) == IF props = <<>> THEN EmptyDict ELSE StatsRecord(props)

(***************************************************************************)
(* A run of main(), lines 390-440.                                         *)
(*                                                                         *)
(* pc: "generate" (in the loops of lines 128-214, before an iteration),    *)
(* "insert" (at the insert_lead call of line 211), "csv" (at line 402),    *)
(* "stats" (at line 405), "summary" (at lines 407-433), "done" (returned). *)
(* Every step inside the try block of lines 396-436 may raise an exception.*)
(* The clock does not change during a run.                                 *)
(***************************************************************************)
NoCall == [value |-> 0, year_built |-> 0, owner_name |-> <<>>, year |-> 0, score |-> 0]

\* the loop left after its first county
LoopDoneAfterFirst == county_ix > 1

\* the for loop of line 128 has run through every county
LoopDone == county_ix > Len(CountyOrder)

\* number of records of one full generation pass
TotalCount ==
    LET RECURSIVE Upto(_)
        Upto(k) == IF k = 0 THEN 0
                   ELSE property_count(texas_cads[CountyOrder[k]].population) + Upto(k - 1)
    IN  Upto(Len(CountyOrder))

\* the outcomes of insert_lead (supabase_config): True, False, or an exception
InsertOutcomes == {"true", "false", "error"}

\* the outcomes of the file write of lines 382-385: written, or an OSError
WriteOutcomes == {"written", "error"}

Init ==
    /\ pc = "generate"
    /\ county_ix = 1
    /\ i = 0
    /\ rng \in 0..MaxSeed
    /\ now_year \in ReferenceYear..MaxYear
    /\ property_data = NoRecord
    /\ sample_properties = <<>>
    /\ all_properties = <<>>
    /\ sink_calls = 0
    /\ sink_last = NoRecord
    /\ sink_failed = 0
    /\ csv_written = FALSE
    /\ csv_rows = <<>>
    /\ stats = EmptyDict
    /\ stats_done = FALSE
    /\ ret = NoReturn
    /\ caught = "none"
    /\ call = NoCall
    /\ prev = NoCall

\* lines 136-188: one loop iteration up to the insert: draw, derive, score
GenerateRecord ==
    /\ pc = "generate"
    /\ ~LoopDone
    /\ property_data' = DrawRecord(CountyOrder[county_ix], rng)
    /\ rng' = RandN(rng, 9)
    /\ pc' = "insert"
    /\ UNCHANGED <<county_ix, i, now_year, sample_properties, all_properties,
                   sink_calls, sink_last, sink_failed, csv_written, csv_rows,
                   stats, stats_done, ret, call, prev, caught>>

\* lines 191-214: forward the record to the sink, then append it.  A False
\* result only skips the debug log of line 212; an exception is not caught
\* in create_texas_cad_sample_data nor in scrape_all_texas_cads, so it ends
\* in the except clause of main, lines 438-440.
InsertLead ==
    /\ pc = "insert"
    /\ \E outcome \in InsertOutcomes :
        /\ sink_calls' = sink_calls + 1
        /\ sink_last' = supabase_data(property_data)
        /\ sink_failed' = IF outcome # "true" /\ sink_failed = 0
                          THEN Len(sample_properties) + 1
                          ELSE sink_failed
        /\ IF outcome = "error"
           THEN /\ pc' = "done"
                /\ ret' = 0
                /\ caught' = "sink"
                /\ UNCHANGED <<sample_properties, county_ix, i>>
           ELSE /\ sample_properties' = Append(sample_properties, property_data)
                /\ IF i + 1 < property_count(texas_cads[CountyOrder[county_ix]].population)
                   THEN /\ i' = i + 1
                        /\ county_ix' = county_ix
                   ELSE /\ i' = 0
                        /\ county_ix' = county_ix + 1
                /\ pc' = "generate"
                /\ ret' = ret
                /\ caught' = caught
    /\ UNCHANGED <<rng, now_year, property_data, all_properties, csv_written,
                   csv_rows, stats, stats_done, call, prev>>

\* lines 216, 308-317 and 400: the list is returned and kept in
\* self.all_properties; main goes on to the export when it is not empty
ScrapeReturn ==
    /\ pc = "generate"
    /\ LoopDone
    /\ all_properties' = sample_properties
    /\ IF sample_properties # <<>>
       THEN pc' = "csv" /\ ret' = ret
       ELSE pc' = "done" /\ ret' = 0
    /\ UNCHANGED <<county_ix, i, rng, now_year, property_data, sample_properties,
                   sink_calls, sink_last, sink_failed, csv_written, csv_rows,
                   stats, stats_done, call, prev, caught>>

\* save_to_csv, lines 375-387, called at line 402
SaveToCsv ==
    /\ pc = "csv"
    /\ \E outcome \in WriteOutcomes :
        IF all_properties = <<>>
        THEN pc' = "stats" /\ UNCHANGED <<csv_written, csv_rows, ret, caught>>
        ELSE IF outcome = "written"
        THEN /\ csv_written' = TRUE
             /\ csv_rows' = all_properties
             /\ pc' = "stats"
             /\ ret' = ret
             /\ caught' = caught
        ELSE /\ pc' = "done"
             /\ ret' = 0
             /\ caught' = "csv"
             /\ UNCHANGED <<csv_written, csv_rows>>
    /\ UNCHANGED <<county_ix, i, rng, now_year, property_data, sample_properties,
                   all_properties, sink_calls, sink_last, sink_failed, stats,
                   stats_done, call, prev>>

\* line 405
GetCadStats ==
    /\ pc = "stats"
    /\ stats' = get_cad_stats(all_properties)
    /\ stats_done' = TRUE
    /\ pc' = "summary"
    /\ UNCHANGED <<county_ix, i, rng, now_year, property_data, sample_properties,
                   all_properties, sink_calls, sink_last, sink_failed, csv_written,
                   csv_rows, ret, call, prev, caught>>

\* lines 407-433: the summary is logged and len(properties) returned
MainReturn ==
    /\ pc = "summary"
    /\ ret' = Len(all_properties)
    /\ pc' = "done"
    /\ UNCHANGED <<county_ix, i, rng, now_year, property_data, sample_properties,
                   all_properties, sink_calls, sink_last, sink_failed, csv_written,
                   csv_rows, stats, stats_done, call, prev, caught>>

\* an exception of the generation pass or of the statistics step that the
\* except clause does not catch: it leaves main
StepRaisesEscapes ==
    /\ pc \in {"generate", "stats"}
    /\ caught' = IF pc = "generate" THEN "generation" ELSE "stats"
    /\ pc' = "escaped"
    /\ UNCHANGED <<county_ix, i, rng, now_year, property_data, sample_properties,
                   all_properties, sink_calls, sink_last, sink_failed, csv_written,
                   csv_rows, stats, stats_done, ret, call, prev>>

\* an exception raised inside the try block (lines 396-436) by the generation
\* pass (lines 398, 308, 128-188) or by the statistics step (line 405):
\* neither create_texas_cad_sample_data, scrape_all_texas_cads nor
\* get_cad_stats catches it; the except clause of lines 438-440 does, logs it
\* and returns 0
StepRaises ==
    /\ pc \in {"generate", "stats"}
    /\ caught' = IF pc = "generate" THEN "generation" ELSE "stats"
    /\ pc' = "done"
    /\ ret' = 0
    /\ UNCHANGED <<county_ix, i, rng, now_year, property_data, sample_properties,
                   all_properties, sink_calls, sink_last, sink_failed, csv_written,
                   csv_rows, stats, stats_done, call, prev>>

Next ==
    \/ GenerateRecord
    \/ InsertLead
    \/ ScrapeReturn
    \/ SaveToCsv
    \/ GetCadStats
    \/ MainReturn
    \/ StepRaises

Spec == Init /\ [][Next]_vars

(***************************************************************************)
(* Harness of the lead scorer: calculate_cad_lead_score called twice, with *)
(* any arguments, while the clock moves on.  call and prev keep the two    *)
(* calls: the arguments, the year in which the call was made, the result.  *)
(***************************************************************************)
JaneDoe == <<"J","a","n","e"," ","D","o","e">>
JohnSmith == OwnerName(first_names[1], last_names[1], FALSE, first_names[2])
JohnAndMarySmith == OwnerName(first_names[1], last_names[1], TRUE, first_names[2])

ScoreValues == {150000, 200000, 200001, 300000, 300001, 500000, 500001, 600000}
ScoreYears == {2000, 2008, 2009, 2013, 2014, 2018, 2019, 2022}
ScoreNames == {JaneDoe, JohnSmith, JohnAndMarySmith}

InitUnit ==
    /\ pc = "unit"
    /\ county_ix = 1
    /\ i = 0
    /\ rng = 0
    /\ property_data = NoRecord
    /\ sample_properties = <<>>
    /\ sink_calls = 0
    /\ sink_last = NoRecord
    /\ sink_failed = 0
    /\ csv_written = FALSE
    /\ csv_rows = <<>>
    /\ stats = EmptyDict
    /\ stats_done = FALSE
    /\ ret = NoReturn
    /\ caught = "none"
    /\ call = NoCall
    /\ prev = NoCall

InitScorer ==
    /\ InitUnit
    /\ now_year = ReferenceYear
    /\ all_properties = <<>>

ScoreCall ==
    /\ prev = NoCall
    /\ \E value \in ScoreValues, year_built \in ScoreYears, owner_name \in ScoreNames :
        call' = [ value      |-> value,
                  year_built |-> year_built,
                  owner_name |-> owner_name,
                  year       |-> now_year,
                  score      |-> calculate_cad_lead_score(value, year_built, owner_name) ]
    /\ prev' = call
    /\ UNCHANGED <<pc, county_ix, i, rng, now_year, property_data, sample_properties,
                   all_properties, sink_calls, sink_last, sink_failed, csv_written,
                   csv_rows, stats, stats_done, ret, caught>>

\* a new year begins: datetime.now().year grows by one
Tick ==
    /\ now_year < MaxYear
    /\ now_year' = now_year + 1
    /\ UNCHANGED <<pc, county_ix, i, rng, property_data, sample_properties,
                   all_properties, sink_calls, sink_last, sink_failed, csv_written,
                   csv_rows, stats, stats_done, ret, call, prev, caught>>

NextScorer ==
    \/ ScoreCall
    \/ Tick

SpecScorer == InitScorer /\ [][NextScorer]_vars

(***************************************************************************)
(* Harness of the generator: one record built by lines 136-188 from any    *)
(* county of the table and any draws of the grids below.                   *)
(***************************************************************************)
YearsBuilt == 1975..2023
SquareFeetSamples == {1200, 2000, 3000, 4500}
ValueFactors == {16, 20, 26}
MarketFactors == {950, 951, 1000, 1049, 1050}
OwnerNames == {JohnSmith, JohnAndMarySmith}

InitGen ==
    /\ InitUnit
    /\ now_year \in ReferenceYear..MaxYear
    /\ all_properties = <<>>

GenerateOne ==
    /\ property_data = NoRecord
    /\ \E county \in Counties, owner_name \in OwnerNames, year_built \in YearsBuilt,
          square_feet \in SquareFeetSamples, u_value \in ValueFactors,
          u_market \in MarketFactors, homestead \in BOOLEAN :
        property_data' = MakeRecord(county, owner_name, year_built, square_feet,
                                    u_value, u_market, homestead)
    /\ UNCHANGED <<pc, county_ix, i, rng, now_year, sample_properties,
                   all_properties, sink_calls, sink_last, sink_failed, csv_written,
                   csv_rows, stats, stats_done, ret, call, prev, caught>>

NextGen == GenerateOne

SpecGen == InitGen /\ [][NextGen]_vars

(***************************************************************************)
(* Harness of the aggregator: get_cad_stats called on a scraper whose      *)
(* all_properties holds any list of at most MaxProps records, the empty    *)
(* list of a fresh scraper included.                                       *)
(***************************************************************************)
StatsValues == {199999, 200000, 399999, 400000, 599999, 600000}

StatsRecords ==
    { [ county              |-> c,
        owner_name          |-> JohnSmith,
        year_built          |-> 2000,
        square_feet         |-> 2000,
        appraised_value     |-> v,
        market_value        |-> v,
        homestead_exemption |-> h,
        lead_score          |-> IF h THEN 9 ELSE 5 ] :
      c \in {"Harris County", "Travis County"}, v \in StatsValues, h \in BOOLEAN }

RECURSIVE ListsUpTo(_, _)
ListsUpTo(S, n) ==
    IF n = 0 THEN {<<>>}
    ELSE LET shorter == ListsUpTo(S, n - 1)
         IN  shorter \cup {Append(l, x) : l \in {m \in shorter : Len(m) = n - 1}, x \in S}

InitStats ==
    /\ InitUnit
    /\ now_year = ReferenceYear
    /\ all_properties \in ListsUpTo(StatsRecords, MaxProps)

StatsCall ==
    /\ ~stats_done
    /\ stats' = get_cad_stats(all_properties)
    /\ stats_done' = TRUE
    /\ UNCHANGED <<pc, county_ix, i, rng, now_year, property_data, sample_properties,
                   all_properties, sink_calls, sink_last, sink_failed, csv_written,
                   csv_rows, ret, call, prev, caught>>

NextStats == StatsCall

SpecStats == InitStats /\ [][NextStats]_vars

(***************************************************************************)
(* Properties.                                                             *)
(***************************************************************************)
\* the score the scoring rules give a call c made in year c.year: the base 5,
\* one point per value threshold exceeded, one per age threshold exceeded,
\* one for the joint-ownership marker, at most 10
ExpectedScore(c) ==
    LET V   == Cardinality({t \in {200000, 300000, 500000} : c.value > t})
        age == c.year - c.year_built
        A   == Cardinality({t \in {5, 10, 15} : age > t})
        J   == IF \E k \in 1..Len(c.owner_name) : c.owner_name[k] = "&" THEN 1 ELSE 0
        sum == 5 + V + A + J
    IN  IF sum > 10 THEN 10 ELSE sum

\* C1: every call of calculate_cad_lead_score returns min(10, 5 + V + A + J),
\* V the value tier (0..3), A the age tier (0..3) with age = current_year -
\* year_built, J = 1 for a name with '&'; in 2024, (600000, 2000,
\* "John & Mary Smith") scores 10 and (150000, 2022, "Jane Doe") scores 5.
C1_ScoreFormula ==
    /\ call # NoCall => call.score = ExpectedScore(call)
    /\ ( /\ call.year = 2024
         /\ call.value = 600000
         /\ call.year_built = 2000
         /\ call.owner_name = JohnAndMarySmith ) => call.score = 10
    /\ ( /\ call.year = 2024
         /\ call.value = 150000
         /\ call.year_built = 2022
         /\ call.owner_name = JaneDoe ) => call.score = 5

\* a call of the first example has returned, and before it one on a tier border
C1_Witness ==
    /\ call.year = 2024
    /\ call.value = 600000
    /\ call.year_built = 2000
    /\ call.owner_name = JohnAndMarySmith
    /\ call.score = 10
    /\ prev.value = 500000
    /\ prev.year_built = 2022
    /\ prev.owner_name = JaneDoe
    /\ prev.score = 7

\* C2: two calls of calculate_cad_lead_score with the same (value, year_built,
\* owner_name) return the same score, whenever each of them is made.
C2_SameInputsSameScore ==
    ( /\ prev # NoCall
      /\ prev.value = call.value
      /\ prev.year_built = call.year_built
      /\ prev.owner_name = call.owner_name ) => prev.score = call.score

\* number of records of props tagged with county c
CountIn(props, c) == Cardinality({k \in 1..Len(props) : props[k].county = c})

\* C3: when the sink's insert fails for a record (False or an error), the run
\* does not abort: once main has returned, the failed record is in the
\* produced record set and every record of the pass has been generated,
\* forwarded to the sink and returned.
C3_SinkFailureDoesNotAbort ==
    (pc = "done" /\ sink_failed > 0) =>
        /\ Len(all_properties) = TotalCount
        /\ sink_failed <= Len(all_properties)
        /\ sink_calls = TotalCount

\* C4 as stated: no export action (a forward to the sink, the file write)
\* happens before every record of every county has been generated and scored
\* and the statistics have been computed.
C4_NoExportBeforeAggregation ==
    (sink_calls > 0 \/ csv_written) =>
        /\ county_ix > Len(CountyOrder)
        /\ stats_done

\* C4 as amended: the tabular file is written only after every record of every
\* county has been generated, scored and forwarded; a record is forwarded to
\* the sink once it has itself been generated and scored, while later records
\* are still to be generated; the statistics are computed after the file
\* write.
C4_ExportOrder ==
    /\ csv_written =>
          /\ county_ix > Len(CountyOrder)
          /\ Len(all_properties) = TotalCount
          /\ sink_calls = TotalCount
          /\ csv_rows = all_properties
    /\ sink_calls > 0 =>
          /\ sink_last.lead_score \in 5..10
          /\ Len(sample_properties) <= sink_calls
          /\ IF sink_calls <= Len(sample_properties)
             THEN sink_last = supabase_data(sample_properties[sink_calls])
             ELSE /\ sink_calls = Len(sample_properties) + 1
                  /\ sink_last = supabase_data(property_data)
                  /\ pc = "done"
    /\ stats_done => csv_written

\* the file has been written, after the last forward, and before the statistics
C4_Witness ==
    /\ csv_written
    /\ ~stats_done
    /\ sink_calls = TotalCount
    /\ Len(csv_rows) = TotalCount

\* C5 as stated: get_cad_stats on an empty record set returns a result whose
\* total_properties is 0 and whose average_value is 0.
C5_EmptyStatsHasZeroFields ==
    (stats_done /\ all_properties = <<>>) =>
        /\ "total_properties" \in DOMAIN stats
        /\ "average_value" \in DOMAIN stats
        /\ stats.total_properties = 0
        /\ stats.average_value = 0

\* C5 as amended: get_cad_stats on an empty record set returns the empty dict
\* {}: it has no total_properties and no average_value key, a lookup with
\* default 0 reads 0 for both, and no division is evaluated.
C5_EmptyStatsIsEmptyDict ==
    (stats_done /\ all_properties = <<>>) =>
        /\ DOMAIN stats = {}
        /\ Get(stats, "total_properties", 0) = 0
        /\ Get(stats, "average_value", 0) = 0

\* get_cad_stats has returned on the empty record set
C5_Witness == stats_done /\ all_properties = <<>> /\ DOMAIN stats = {}

\* C6: for a non-empty record set the four value buckets of get_cad_stats
\* (value < 200000; 200000 <= value < 400000; 400000 <= value < 600000;
\* value >= 600000) count each record in exactly one bucket: their sum is
\* total_properties.
C6_BucketsPartition ==
    (stats_done /\ all_properties # <<>>) =>
        LET vr == stats.value_ranges
            n(lo, hi) == Cardinality({k \in 1..Len(all_properties) :
                            /\ lo <= all_properties[k].appraised_value
                            /\ all_properties[k].appraised_value < hi})
        IN  /\ vr["under_200k"] = n(0, 200000)
            /\ vr["200k_400k"] = n(200000, 400000)
            /\ vr["400k_600k"] = n(400000, 600000)
            /\ vr["over_600k"] = n(600000, 2000000000)
            /\ vr["under_200k"] + vr["200k_400k"] + vr["400k_600k"] + vr["over_600k"]
                  = stats.total_properties
            /\ stats.total_properties = Len(all_properties)

\* statistics of two records on the two sides of the last bucket border
C6_Witness ==
    /\ stats_done
    /\ Len(all_properties) = 2
    /\ all_properties[1].appraised_value = 599999
    /\ all_properties[2].appraised_value = 600000
    /\ stats.value_ranges["400k_600k"] = 1
    /\ stats.value_ranges["over_600k"] = 1

\* floor(population / 100000) limited to 5..15
ClampedCount(population) ==
    LET q == CHOOSE x \in 0..100 : x * 100000 <= population /\ population < (x + 1) * 100000
    IN  IF q < 5 THEN 5 ELSE IF q > 15 THEN 15 ELSE q

\* C7: one generation pass produces, for every county of the table, exactly
\* clamp(floor(population / 100000), 5, 15) records tagged with it, between 5
\* and 15; for Montgomery County (620443) the count is 6.
C7_CountPerCounty ==
    /\ \A k \in 1..Len(CountyOrder) :
          k < county_ix =>
              /\ CountIn(sample_properties, CountyOrder[k])
                    = ClampedCount(texas_cads[CountyOrder[k]].population)
              /\ CountIn(sample_properties, CountyOrder[k]) \in 5..15
    /\ all_properties # <<>> =>
          /\ \A c \in Counties :
                CountIn(all_properties, c) = ClampedCount(texas_cads[c].population)
          /\ CountIn(all_properties, "Montgomery County") = 6

\* the pass has returned its records, six of them of Montgomery County
C7_Witness ==
    /\ pc = "csv"
    /\ CountIn(all_properties, "Montgomery County") = 6
    /\ CountIn(all_properties, "Harris County") = 15

\* C8: scored in the same year with the same owner name, a value not lower
\* and an age not lower (a year built not later) give a score not lower; and
\* with the same value and year built, a name with the marker '&' never scores
\* lower than a name without it.
C8_Monotone ==
    /\ ( /\ prev # NoCall
         /\ prev.year = call.year
         /\ prev.owner_name = call.owner_name
         /\ prev.value <= call.value
         /\ prev.year_built >= call.year_built ) => prev.score <= call.score
    /\ ( /\ prev # NoCall
         /\ prev.year = call.year
         /\ prev.value = call.value
         /\ prev.year_built = call.year_built
         /\ ~HasAmpersand(prev.owner_name)
         /\ HasAmpersand(call.owner_name) ) => prev.score <= call.score

\* two calls of one year, the second with a higher value and an older
\* building, scoring strictly higher
C8_Witness ==
    /\ prev # NoCall
    /\ prev.year = call.year
    /\ prev.owner_name = call.owner_name
    /\ prev.value < call.value
    /\ prev.year_built = 2013
    /\ call.year_built = 2008
    /\ prev.score < call.score

\* C9: the lead_score of every generated record is an integer in 1..10, and
\* never below the base score 5.
C9_ScoreRange ==
    property_data # NoRecord =>
        /\ property_data.lead_score \in 1..10
        /\ property_data.lead_score >= 5

\* a record whose adjustments add up to more than 10 has been generated
C9_Witness ==
    /\ property_data # NoRecord
    /\ property_data.appraised_value > 500000
    /\ now_year - property_data.year_built > 15
    /\ HasAmpersand(property_data.owner_name)
    /\ property_data.lead_score = 10

\* C10 as stated: 0.95 * appraised_value <= market_value <= 1.05 * appraised_value
C10_MarketWithinFivePercent ==
    property_data # NoRecord =>
        /\ 950 * property_data.appraised_value <= 1000 * property_data.market_value
        /\ 1000 * property_data.market_value <= 1050 * property_data.appraised_value

\* C10 as amended: market_value is the truncation of a number within 5% of
\* appraised_value, so 0.95 * appraised_value - 1 < market_value
\* <= 1.05 * appraised_value.
C10_MarketWithinFivePercentTruncated ==
    property_data # NoRecord =>
        /\ 950 * property_data.appraised_value - 1000 < 1000 * property_data.market_value
        /\ 1000 * property_data.market_value <= 1050 * property_data.appraised_value

\* a record whose market value the truncation has put below 0.95 * appraised
C10_Witness ==
    /\ property_data # NoRecord
    /\ 1000 * property_data.market_value < 950 * property_data.appraised_value

\* C11: main lets no runtime error escape: when the generation pass, a sink
\* forward, the file write or the statistics step raises, main returns 0; when
\* no step raises, main returns the number of records produced, which is the
\* number of records of self.all_properties.
C11_MainReturnValue ==
    /\ pc # "escaped"
    /\ caught # "none" => (pc = "done" /\ ret = 0)
    /\ (pc = "done" /\ caught = "none") =>
          /\ ret = Len(sample_properties)
          /\ ret = Len(all_properties)
          /\ ret = sink_calls
          /\ ret > 0
    /\ pc # "done" => ret = NoReturn

\* main has returned 0 for an error of the statistics step, after all records
\* were produced and written
C11_Witness ==
    /\ pc = "done"
    /\ caught = "stats"
    /\ ret = 0
    /\ csv_written
    /\ Len(all_properties) = TotalCount

====
